---- MODULE Spec2Model ----
(***************************************************************************)
(* A model of bazel_build.py, the bridge between Xcode and Bazel for the   *)
(* "build" action: the option parser (_OptionsParser), the command         *)
(* builder, the pipeline driver (BazelBuildBridge.Run), the output patch   *)
(* function and the read loop around the child process, and the bundle     *)
(* installer.  Strings are TLA+ strings; a Python list is a sequence; a    *)
(* defaultdict(list) is a function whose missing keys read as <<>>.        *)
(***************************************************************************)
EXTENDS Integers, Sequences, FiniteSets, TLC

VARIABLES
    \* BazelBuildBridge.Run
    pc,             \* the stage Run is about to execute, or how it ended
    executed,       \* the stages executed so far, each with the code it reported
    retval,         \* what Run returned
    environ,        \* os.environ, as far as Run has read it
    args,           \* args[1:], the argument list given to ParseOptions
    \* _OptionsParser
    parser,         \* the parser object's fields
    parse_out,      \* what ParseOptions returned (or that it raised)
    command,        \* what _BuildBazelCommand returned (or that it raised)
    \* the installer
    fs,             \* the filesystem: the tree of paths, what the build left
                    \* under bazel-bin, and the bazel-bin symlink
    install_out,    \* what _InstallBundleArtifact returned (or that it raised)
    gone_stale,     \* the paths under the destination that the last install
                    \* took away
    \* _RunBazelAndPatchOutput
    patch,          \* the two directories, the line given to the patch
                    \* function and what it returned
    stream          \* the child, its pipe, and the read loop's position,
                    \* line buffer and deliveries to the patch function

runVars == <<pc, executed, retval, environ, args>>
optVars == <<parser, parse_out, command>>
fsVars == <<fs, install_out, gone_stale>>
ioVars == <<patch, stream>>
vars == <<pc, executed, retval, environ, args, parser, parse_out, command,
          fs, install_out, gone_stale, patch, stream>>

(***************************************************************************)
(* Bounds of the model.                                                    *)
(***************************************************************************)
\* The most flag segments (a bare flag, or a run of options with its
\* terminator) after the executable path in an enumerated argument list.
MaxSegs == 2

\* The most items in an enumerated archive.
MaxItems == 2

\* The most characters of an enumerated line given to the patch function.
MaxLine == 5

\* The most characters an enumerated child writes.
MaxOut == 4

(***************************************************************************)
(* Strings.                                                                *)
(***************************************************************************)
\* The i-th character of s (s[i-1] in Python).
CharAt(s, i) == SubSeq(s, i, i)

\* str.startswith
StartsWith(s, prefix) ==
    /\ Len(s) >= Len(prefix)
    /\ SubSeq(s, 1, Len(prefix)) = prefix

\* str.endswith
EndsWith(s, suffix) ==
    /\ Len(s) >= Len(suffix)
    /\ SubSeq(s, Len(s) - Len(suffix) + 1, Len(s)) = suffix

\* The least index of c in s at or after i, or 0 when there is none.
RECURSIVE FindFrom(_, _, _)
FindFrom(s, c, i) ==
    IF i > Len(s) THEN 0
    ELSE IF CharAt(s, i) = c THEN i
    ELSE FindFrom(s, c, i + 1)

Digits == <<"0", "1", "2", "3", "4", "5", "6", "7", "8", "9">>

IsDigit(c) == \E d \in 1..10 : Digits[d] = c

\* int(c) for a one-digit string
DigitVal(c) == (CHOOSE d \in 1..10 : Digits[d] = c) - 1

\* int(s) for a string of digits
RECURSIVE StrToInt(_)
StrToInt(s) ==
    IF Len(s) = 0 THEN 0
    ELSE 10 * StrToInt(SubSeq(s, 1, Len(s) - 1)) + DigitVal(CharAt(s, Len(s)))

\* '%d' % n for n >= 0
RECURSIVE IntToStr(_)
IntToStr(n) ==
    IF n < 10 THEN Digits[n + 1]
    ELSE IntToStr(n \div 10) \o Digits[(n % 10) + 1]

\* Whether x is an element of the list s.
InList(s, x) == \E i \in 1..Len(s) : s[i] = x

\* list.index: the first position of x in s.
Index(s, x) == CHOOSE i \in 1..Len(s) : s[i] = x /\ \A j \in 1..(i - 1) : s[j] # x

\* The elements of a list, as a set.
Range(s) == {s[i] : i \in 1..Len(s)}

\* The concatenation of a list of lists.
RECURSIVE Flatten(_)
Flatten(ss) == IF Len(ss) = 0 THEN <<>> ELSE Head(ss) \o Flatten(Tail(ss))

(***************************************************************************)
(* _OptionsParser                                                          *)
(***************************************************************************)
ALL_CONFIGS == "__all__"

KNOWN_CONFIGS == <<"Debug", "Release", "Fastbuild">>

\* A read of a defaultdict(list): a missing key reads as the empty list.
Get(option_set, key) ==
    IF key \in DOMAIN option_set THEN option_set[key] ELSE <<>>

\* option_set[key].extend(items)
Extend(option_set, key, items) ==
    [k \in DOMAIN option_set \cup {key} |->
        IF k = key THEN Get(option_set, key) \o items ELSE option_set[k]]

\* _OptionsParser.__init__: the fields of a new parser.
NewParser(sdk_version, arch, main_group_path, ios_minimum_os) ==
    [targets |-> <<>>,
     bazel_executable |-> "",
     startup_options |-> [k \in {} |-> <<>>],
     build_options |->
        [k \in {ALL_CONFIGS, "Debug", "Release", "Fastbuild"} |->
            CASE k = ALL_CONFIGS ->
                    <<"--experimental_enable_objc_cc_deps", "--verbose_failures">>
                    \o (IF arch # "" THEN <<"--config=ios_" \o arch>> ELSE <<>>)
                    \o (IF ios_minimum_os # ""
                        THEN <<"--ios_minimum_os=" \o ios_minimum_os>> ELSE <<>>)
              [] k = "Debug" ->
                    <<"--compilation_mode=dbg",
                      "--copt=-g",
                      "--copt=-Xclang", "--copt=-fdebug-compilation-dir",
                      "--copt=-Xclang", "--copt=" \o main_group_path,
                      "--objccopt=-Xclang", "--objccopt=-fdebug-compilation-dir",
                      "--objccopt=-Xclang", "--objccopt=" \o main_group_path,
                      "--objc_generate_debug_symbols">>
              [] k = "Release" ->
                    <<"--compilation_mode=opt",
                      "--objc_generate_debug_symbols",
                      "--strip=always">>
              [] OTHER -> <<"--compilation_mode=fastbuild">>],
     sdk_version |-> sdk_version,
     verbose |-> TRUE,
     install_generated_artifacts |-> FALSE]

\* _ParseConfigFilter: re.search(r'\[([^\]]+)\]', arg), the leftmost '[' that
\* is followed by one or more characters other than ']' and then a ']'.
RECURSIVE ConfigFilterFrom(_, _)
ConfigFilterFrom(arg, i) ==
    LET open == FindFrom(arg, "[", i)
        close == FindFrom(arg, "]", open + 1)
    IN  IF open = 0 THEN ALL_CONFIGS
        ELSE IF close = 0 THEN ALL_CONFIGS
        ELSE IF close > open + 1 THEN SubSeq(arg, open + 1, close - 1)
        ELSE ConfigFilterFrom(arg, open + 1)

ParseConfigFilter(arg) == ConfigFilterFrom(arg, 1)

\* _ParseDoubleDashDelimitedItems: consumes options until -- is found.
RECURSIVE ParseDoubleDashDelimitedItems(_)
ParseDoubleDashDelimitedItems(a) ==
    IF Len(a) = 0
    THEN [opts |-> <<>>, options |-> <<>>, terminated |-> FALSE]
    ELSE IF Head(a) = "--"
    THEN [opts |-> Tail(a), options |-> <<>>, terminated |-> TRUE]
    ELSE LET rest == ParseDoubleDashDelimitedItems(Tail(a))
         IN  [rest EXCEPT !.options = <<Head(a)>> \o rest.options]

allowed_duplicates == {"--copt", "--config", "--define"}

\* opt.split('=', 1)[0]: the text before the first '=', or all of it.
OptionName(opt) ==
    LET eq == FindFrom(opt, "=", 1)
    IN  IF eq = 0 THEN opt ELSE SubSeq(opt, 1, eq - 1)

\* _FindDuplicateOptions.ExtractOptionNames
ExtractOptionNames(opts) ==
    {OptionName(opts[i]) : i \in 1..Len(opts)} \ allowed_duplicates

\* _FindDuplicateOptions: the names of new_options that are already current
\* for config and, when config is a named one, for the global key.
FindDuplicateOptions(options_dict, config, new_options) ==
    LET new_set == ExtractOptionNames(new_options)
        conflicts == ExtractOptionNames(Get(options_dict, config)) \cap new_set
    IN  IF config # ALL_CONFIGS
        THEN conflicts \cup
             (ExtractOptionNames(Get(options_dict, ALL_CONFIGS)) \cap new_set)
        ELSE conflicts

\* What a call returns: a (message, exit_code) pair with the parser as the call
\* left it, or an exception.
Returned(p, message, code) ==
    [raised |-> FALSE, message |-> message, code |-> code, parser |-> p]

Raises(p, exception) ==
    [raised |-> TRUE, message |-> exception, code |-> -1, parser |-> p]

\* _ParseVariableOptions: the while loop over the flag-based args.
RECURSIVE ParseVariableOptions(_, _)
ParseVariableOptions(p, a) ==
    IF Len(a) = 0 THEN Returned(p, "None", 0)
    ELSE
    LET arg == Head(a)
        rest == Tail(a)
        run == ParseDoubleDashDelimitedItems(rest)
        config == ParseConfigFilter(arg)
    IN  IF arg = "--noverbose"
        THEN ParseVariableOptions([p EXCEPT !.verbose = FALSE], rest)
        ELSE IF arg = "--install_generated_artifacts"
        THEN ParseVariableOptions(
                [p EXCEPT !.install_generated_artifacts = TRUE], rest)
        ELSE IF StartsWith(arg, "--bazel_startup_options")
        THEN IF ~run.terminated THEN Returned(p, "missing terminator", 2)
             ELSE IF FindDuplicateOptions(p.startup_options, config, run.options) # {}
             THEN Returned(p, "conflict", 2)
             ELSE ParseVariableOptions(
                    [p EXCEPT !.startup_options =
                        Extend(p.startup_options, config, run.options)],
                    run.opts)
        ELSE IF StartsWith(arg, "--bazel_options")
        THEN IF ~run.terminated THEN Returned(p, "missing terminator", 2)
             ELSE IF FindDuplicateOptions(p.build_options, config, run.options) # {}
             THEN Returned(p, "conflict", 2)
             ELSE ParseVariableOptions(
                    [p EXCEPT !.build_options =
                        Extend(p.build_options, config, run.options)],
                    run.opts)
        ELSE Returned(p, "unknown option", 1)

\* ParseOptions: parses arguments, returning (message, exit_code).
\* args.index raises ValueError when '--bazel' is not in the list.
ParseOptions(p, a) ==
    IF ~InList(a, "--bazel") THEN Raises(p, "ValueError")
    ELSE
    LET bazel_executable_index == Index(a, "--bazel") - 1
        withTargets == [p EXCEPT !.targets = SubSeq(a, 1, bazel_executable_index)]
    IN  IF Len(withTargets.targets) = 0 \/ Len(a) < bazel_executable_index + 2
        THEN Returned(withTargets, "usage", 10)
        ELSE ParseVariableOptions(
                [withTargets EXCEPT !.bazel_executable = a[bazel_executable_index + 2]],
                SubSeq(a, bazel_executable_index + 3, Len(a)))

\* _GetOptions: a flattened list from option_set for the given config.
GetOptionsConfigOnly(option_set, config) == Get(option_set, config)

GetOptions(option_set, config) ==
    Get(option_set, ALL_CONFIGS)
    \o (IF config # ALL_CONFIGS THEN Get(option_set, config) ELSE <<>>)

\* GetStartupOptions
GetStartupOptions(p, config) == GetOptions(p.startup_options, config)

\* _AddDefaultOption
AddDefaultOption(option_list, option, default_value) ==
    IF \E i \in 1..Len(option_list) : StartsWith(option_list[i], option)
    THEN option_list
    ELSE Append(option_list, option \o "=" \o default_value)

\* re.match(r'(\d{2})(\d)(\d)$', reported_version)
VersionMatches(reported_version) ==
    /\ Len(reported_version) = 4
    /\ \A i \in 1..4 : IsDigit(CharAt(reported_version, i))

\* _GetXcodeVersionString: the version string, or an exception.  Without a
\* match the method calls self._PrintVerbose, which _OptionsParser does not
\* define (only BazelBuildBridge does): the call raises AttributeError before
\* the "return None" is reached.
XcodeVersionFixAlways(reported_version) ==
    IF ~VersionMatches(reported_version)
    THEN [raised |-> TRUE, value |-> "AttributeError"]
    ELSE [raised |-> FALSE,
          value |-> IntToStr(StrToInt(SubSeq(reported_version, 1, 2))) \o "."
                    \o IntToStr(StrToInt(CharAt(reported_version, 3))) \o "."
                    \o IntToStr(StrToInt(CharAt(reported_version, 4)))]

GetXcodeVersionString(reported_version) ==
    IF ~VersionMatches(reported_version)
    THEN [raised |-> TRUE, value |-> "AttributeError"]
    ELSE
    LET major_version == StrToInt(SubSeq(reported_version, 1, 2))
        minor_version == StrToInt(CharAt(reported_version, 3))
        fix_version == StrToInt(CharAt(reported_version, 4))
        fix_version_string ==
            IF fix_version # 0 THEN "." \o IntToStr(fix_version) ELSE ""
    IN  [raised |-> FALSE,
         value |-> IntToStr(major_version) \o "." \o IntToStr(minor_version)
                   \o fix_version_string]

\* GetBuildOptions: the full set of build options for the given config.
GetBuildOptions(p, config, reported_version) ==
    LET options == GetOptions(p.build_options, config)
        version_string == GetXcodeVersionString(reported_version)
        withVersion ==
            AddDefaultOption(options, "--xcode_version", version_string.value)
    IN  IF version_string.raised THEN version_string
        ELSE [raised |-> FALSE,
              value |-> IF p.sdk_version # ""
                        THEN AddDefaultOption(withVersion, "--ios_sdk_version",
                                              p.sdk_version)
                        ELSE withVersion]

(***************************************************************************)
(* BazelBuildBridge._BuildBazelCommand                                     *)
(***************************************************************************)
test_runner_config_prefix == "__TulsiTestRunner_"

\* The configuration the command is built for.
ResolveConfiguration(configuration) ==
    LET stripped ==
            IF StartsWith(configuration, test_runner_config_prefix)
            THEN SubSeq(configuration, Len(test_runner_config_prefix) + 1,
                        Len(configuration))
            ELSE configuration
    IN  IF InList(KNOWN_CONFIGS, stripped) THEN stripped ELSE "Fastbuild"

\* _BuildBazelCommand: (bazel_command, 0), or the exception GetBuildOptions
\* raised.
BuildBazelCommand(p, configuration, reported_version) ==
    LET resolved == ResolveConfiguration(configuration)
        build == GetBuildOptions(p, resolved, reported_version)
    IN  IF build.raised
        THEN [raised |-> TRUE, command |-> <<>>, retval |-> -1]
        ELSE [raised |-> FALSE,
              command |-> <<p.bazel_executable>>
                          \o GetStartupOptions(p, resolved)
                          \o <<"build">>
                          \o build.value
                          \o p.targets,
              retval |-> 0]

(***************************************************************************)
(* Paths and the filesystem.  A path is a string; the filesystem maps the  *)
(* list of a path's components to what is there: a directory, or a file    *)
(* with its bytes, each with its permission bits.                          *)
(***************************************************************************)
\* str.split(sep) for a one-character sep.
RECURSIVE Split(_, _)
Split(s, sep) ==
    LET at == FindFrom(s, sep, 1)
    IN  IF at = 0 THEN <<s>>
        ELSE <<SubSeq(s, 1, at - 1)>> \o Split(SubSeq(s, at + 1, Len(s)), sep)

\* The last index of c in s, or 0.
RECURSIVE RFind(_, _, _)
RFind(s, c, i) ==
    IF i = 0 THEN 0
    ELSE IF CharAt(s, i) = c THEN i
    ELSE RFind(s, c, i - 1)

\* str.rstrip('/')
RECURSIVE RStripSep(_)
RStripSep(s) ==
    IF Len(s) > 0 /\ CharAt(s, Len(s)) = "/"
    THEN RStripSep(SubSeq(s, 1, Len(s) - 1))
    ELSE s

\* posixpath.join(a, b)
Join2(a, b) ==
    IF StartsWith(b, "/") THEN b
    ELSE IF a = "" \/ EndsWith(a, "/") THEN a \o b
    ELSE a \o "/" \o b

\* posixpath.join(*parts) for one part or more.
RECURSIVE JoinFrom(_, _)
JoinFrom(path, parts) ==
    IF Len(parts) = 0 THEN path
    ELSE JoinFrom(Join2(path, Head(parts)), Tail(parts))

JoinPath(parts) == JoinFrom(Head(parts), Tail(parts))

\* posixpath.dirname
Dirname(path) ==
    LET head == SubSeq(path, 1, RFind(path, "/", Len(path)))
    IN  IF head # "" /\ RStripSep(head) # "" THEN RStripSep(head) ELSE head

\* posixpath.basename
Basename(path) == SubSeq(path, RFind(path, "/", Len(path)) + 1, Len(path))

\* _SplitPathComponents: all the components of a path, the first patched to
\* '/' when the path started with one.
SplitPathComponents(path) ==
    LET components == Split(path, "/")
    IN  IF components[1] = "" THEN <<"/">> \o Tail(components) ELSE components

\* Where a path leads: its non-empty components.
RECURSIVE NonEmpty(_)
NonEmpty(parts) ==
    IF Len(parts) = 0 THEN <<>>
    ELSE (IF Head(parts) = "" THEN <<>> ELSE <<Head(parts)>>) \o NonEmpty(Tail(parts))

Where(path) == NonEmpty(Split(path, "/"))

IsPrefixOf(p, q) == Len(p) <= Len(q) /\ SubSeq(q, 1, Len(p)) = p

\* The permission bits a new directory and a new file get (umask 022).
DefaultDirMode == 7 * 64 + 5 * 8 + 5

DefaultFileMode == 6 * 64 + 4 * 8 + 4

Dir(mode) == [kind |-> "dir", content |-> "", mode |-> mode]

File(content, mode) == [kind |-> "file", content |-> content, mode |-> mode]

\* os.path.isdir, os.path.isfile
IsDir(tree, where) == where \in DOMAIN tree /\ tree[where].kind = "dir"

IsFile(tree, where) == where \in DOMAIN tree /\ tree[where].kind = "file"

Put(tree, where, node) ==
    [q \in DOMAIN tree \cup {where} |-> IF q = where THEN node ELSE tree[q]]

\* os.makedirs: every missing directory down to where is made; OSError when
\* a file is in the way or where is already there.
MakedirsFails(tree, where) ==
    \/ where \in DOMAIN tree
    \/ \E k \in 0..Len(where) : IsFile(tree, SubSeq(where, 1, k))

Makedirs(tree, where) ==
    [q \in DOMAIN tree \cup {SubSeq(where, 1, k) : k \in 0..Len(where)} |->
        IF q \in DOMAIN tree THEN tree[q] ELSE Dir(DefaultDirMode)]

\* shutil.rmtree that went through: nothing at or under where is left.
Rmtree(tree, where) ==
    [q \in {x \in DOMAIN tree : ~IsPrefixOf(where, x)} |-> tree[q]]

\* What a failed shutil.rmtree may leave: where itself and any part of what
\* was under it that still hangs together.
RmtreeLeavings(tree, where) ==
    {[q \in keep |-> tree[q]] :
        keep \in {k \in SUBSET DOMAIN tree :
                    /\ \A x \in DOMAIN tree : ~IsPrefixOf(where, x) => x \in k
                    /\ where \in k
                    /\ \A x \in k : \A n \in 0..Len(x) : SubSeq(x, 1, n) \in k}}

\* shutil.copytree that went through: the source tree stands at where, with
\* its files' bytes and everything's permission bits.
Copytree(tree, source, where) ==
    [q \in DOMAIN tree \cup {where \o x : x \in DOMAIN source} |->
        IF IsPrefixOf(where, q) THEN source[SubSeq(q, Len(where) + 1, Len(q))]
        ELSE tree[q]]

(***************************************************************************)
(* BazelBuildBridge._UnpackTarget, _CopyBundle, _InstallBundleArtifact     *)
(***************************************************************************)
\* What a step of the installer leaves: the exit code it returns (0 to go
\* on), or an exception, with the filesystem.
Left(tree, code) == [raised |-> FALSE, code |-> code, tree |-> tree]

Threw(tree) == [raised |-> TRUE, code |-> -1, tree |-> tree]

\* (item.external_attr >> 16) & 0777.  The 32-bit field is kept as its two
\* 16-bit halves, so that external_attr >> 16 is the high half.
Attributes(external_attr) == external_attr.high % 512

\* chmod of what was just extracted, when the item stores permission bits.
ChmodNever(tree, where, attributes) == tree

Chmod(tree, where, attributes) ==
    IF attributes # 0
    THEN Put(tree, where, [tree[where] EXCEPT !.mode = attributes])
    ELSE tree

\* Where the item's path is written: the body of _UnpackTarget's loop from
\* "Get the file's path" on, for an item that is not skipped.
UnpackItem(tree, item, output_path) ==
    LET dir_components == SplitPathComponents(item.filename)
        parts == SubSeq(dir_components, 3, Len(dir_components))
        subpath == JoinPath(parts)
        target_path == Join2(output_path, subpath)
        target_dir == Where(Dirname(target_path))
        target == Where(target_path)
        made == IF IsDir(tree, target_dir) THEN tree ELSE Makedirs(tree, target_dir)
        written ==
            IF EndsWith(item.filename, "/") THEN made
            ELSE Put(made, target,
                     File(item.content,
                          IF target \in DOMAIN made THEN made[target].mode
                          ELSE DefaultFileMode))
    IN  IF Len(parts) = 0 THEN Threw(tree)
        ELSE IF ~IsDir(tree, target_dir) /\ MakedirsFails(tree, target_dir)
        THEN Left(tree, 671)
        ELSE IF ~EndsWith(item.filename, "/") /\ IsDir(made, target)
        THEN Threw(made)
        ELSE Left(Chmod(written, target, Attributes(item.external_attr)), 0)

\* The loop over zf.infolist().
RECURSIVE UnpackItems(_, _, _)
UnpackItems(tree, items, output_path) ==
    IF Len(items) = 0 THEN Left(tree, 0)
    ELSE IF Len(Head(items).filename)
            < Len(Join2("Payload", Basename(output_path)))
    THEN UnpackItems(tree, Tail(items), output_path)
    ELSE LET done == UnpackItem(tree, Head(items), output_path)
         IN  IF done.raised \/ done.code # 0 THEN done
             ELSE UnpackItems(done.tree, Tail(items), output_path)

\* What the build left under bazel-bin/<BUILD_PATH>: the bundle directory
\* (or none) and the items of <PRODUCT_NAME>.ipa (or no such file).
NoBundle == [present |-> FALSE, tree |-> <<>>]

NoIpa == [present |-> FALSE, items |-> <<>>]

\* _UnpackTarget: unpacks the generated IPA into output_path.
UnpackTarget(tree, ipa, output_path) ==
    IF ~ipa.present THEN Left(tree, 670)
    ELSE UnpackItems(tree, ipa.items, output_path)

\* _CopyBundle: copytree went through; or raised OSError before anything was
\* made; or raised shutil.Error, which is no OSError, over what it had copied.
CopyBundle(tree, source, output_path, copy) ==
    IF copy = "ok" THEN Left(Copytree(tree, source, Where(output_path)), 0)
    ELSE IF copy = "OSError" THEN Left(tree, 650)
    ELSE Threw(Put(tree, Where(output_path), Dir(DefaultDirMode)))

\* How shutil.rmtree may end: it goes through, or fails and leaves a part.
RmtreeOutcomes(tree, where) ==
    {[ok |-> TRUE, left |-> Rmtree(tree, where)]}
    \cup {[ok |-> FALSE, left |-> t] : t \in RmtreeLeavings(tree, where)}

\* _InstallBundleArtifact: rm is how the rmtree of a stale destination ends,
\* copy how the copytree of a bundle directory ends.
InstallKeepingStale(tree, built, output_path, rm, copy) ==
    IF built.bundle.present
    THEN CopyBundle(Rmtree(tree, Where(output_path)), built.bundle.tree,
                    output_path, copy)
    ELSE UnpackTarget(tree, built.ipa, output_path)

InstallBundleArtifact(tree, built, output_path, rm, copy) ==
    LET stale == IsDir(tree, Where(output_path))
        cleared == IF stale THEN Rmtree(tree, Where(output_path)) ELSE tree
    IN  IF stale /\ ~rm.ok THEN Left(rm.left, 600)
        ELSE IF built.bundle.present
        THEN CopyBundle(cleared, built.bundle.tree, output_path, copy)
        ELSE UnpackTarget(cleared, built.ipa, output_path)

(***************************************************************************)
(* The inputs the model enumerates.                                        *)
(***************************************************************************)
\* One flag segment of an argument list: a bare flag (--unpack_generated_ipa,
\* which only the usage message knows), or a run of options for the global
\* key or a named configuration, with its terminator or, for the last one,
\* without.
RunFlags == {"--bazel_startup_options", "--bazel_options"}

ConfigSuffixes == {"", "[Debug]", "[Release]"}

ItemLists ==
    {<<"--foo=1">>, <<"--define=a=b", "--bar">>, <<"--xcode_version=9.0">>}

Segments ==
    {<<"--unpack_generated_ipa">>}
    \cup {<<f \o c>> \o items \o <<"--">> :
            f \in RunFlags, c \in ConfigSuffixes, items \in ItemLists}
    \cup {<<"--bazel_options", "--foo=1">>}

\* The concatenations of at most n segments.
RECURSIVE Tails(_)
Tails(n) ==
    IF n = 0 THEN {<<>>}
    ELSE Tails(n - 1) \cup {s \o t : s \in Segments, t \in Tails(n - 1)}

TargetLists == {<<>>, <<"//app:App">>}

MarkerParts == {<<>>, <<"--bazel">>, <<"--bazel", "/usr/bin/bazel">>}

ArgLists ==
    {t \o m \o tail : t \in TargetLists, m \in MarkerParts, tail \in Tails(MaxSegs)}

\* The argument lists the pipeline is run on: one of each way ParseOptions
\* can end, the accepted ones with and without --install_generated_artifacts.
RunArgLists ==
    {<<"//app:App">>,
     <<"//app:App", "--bazel">>,
     <<"//app:App", "--bazel", "/usr/bin/bazel">>,
     <<"//app:App", "--bazel", "/usr/bin/bazel", "--install_generated_artifacts">>,
     <<"//app:App", "--bazel", "/usr/bin/bazel", "--noverbose",
       "--install_generated_artifacts">>,
     <<"//app:App", "--bazel", "/usr/bin/bazel", "--unpack_generated_ipa">>,
     <<"//app:App", "--bazel", "/usr/bin/bazel",
       "--bazel_options", "--verbose_failures", "--">>,
     <<"//app:App", "--bazel", "/usr/bin/bazel",
       "--bazel_options", "--verbose_failures">>,
     <<"//app:App", "--bazel", "/usr/bin/bazel",
       "--bazel_options", "--foo=1", "--", "--bazel_options[Debug]", "--foo=1", "--">>}

\* CODESIGNING_FOLDER_PATH
OutputPath == "/out/App.app"

\* The filesystem with nothing at the destination, and with what an earlier
\* install (of something else) left there.
BaseTree ==
    [q \in {<<>>, <<"out">>} |-> Dir(DefaultDirMode)]

StaleTree ==
    [q \in {<<>>, <<"out">>, <<"out", "App.app">>, <<"out", "App.app", "Old">>,
            <<"out", "App.app", "Old", "stale.txt">>,
            <<"out", "App.app", "Info.plist">>} |->
        IF q = <<"out", "App.app", "Old", "stale.txt">> THEN File("zz", DefaultFileMode)
        ELSE IF q = <<"out", "App.app", "Info.plist">> THEN File("old", 6 * 64)
        ELSE Dir(DefaultDirMode)]

PriorTrees == {BaseTree, StaleTree}

\* The items an enumerated archive is made of: files with and without stored
\* permission bits (S_IFREG | 0644, S_IFREG | 0755), two items of one name, a
\* directory item (S_IFDIR | 0755, with the DOS directory bit), an item too
\* short to be looked at, an item of another prefix that is unpacked all the
\* same, and a file where another item has a directory.
ExternalAttr(high, low) == [high |-> high, low |-> low]

Item(filename, external_attr, content) ==
    [filename |-> filename, external_attr |-> external_attr, content |-> content]

ItemPool ==
    {Item("Payload/App.app/Info.plist", ExternalAttr(32768 + 420, 0), "aa"),
     Item("Payload/App.app/Info.plist", ExternalAttr(0, 0), "bb"),
     Item("Payload/App.app/Frameworks/X", ExternalAttr(32768 + 493, 0), "cc"),
     Item("Payload/App.app/Frameworks/", ExternalAttr(16384 + 493, 16), ""),
     Item("Payload/", ExternalAttr(16384 + 493, 16), ""),
     Item("Other/Zzzzzzz/Info.plist", ExternalAttr(32768 + 384, 0), "dd"),
     Item("Payload/App.app/Frameworks", ExternalAttr(32768 + 420, 0), "ee")}

\* The lists of at most n items.
ArchivesUpTo(n) == UNION {[1..k -> ItemPool] : k \in 0..n}

BundleTrees ==
    {[q \in {<<>>, <<"Info.plist">>} |->
        IF q = <<>> THEN Dir(DefaultDirMode) ELSE File("aa", DefaultFileMode)],
     [q \in {<<>>, <<"Frameworks">>, <<"Frameworks", "X">>} |->
        IF q = <<"Frameworks", "X">> THEN File("cc", DefaultDirMode)
        ELSE Dir(DefaultDirMode)]}

NothingBuilt == [bundle |-> NoBundle, ipa |-> NoIpa]

\* What a build may leave under bazel-bin: nothing, a bundle directory, or an
\* archive.
Artifacts ==
    {NothingBuilt}
    \cup {[bundle |-> [present |-> TRUE, tree |-> t], ipa |-> NoIpa] : t \in BundleTrees}
    \cup {[bundle |-> NoBundle, ipa |-> [present |-> TRUE, items |-> items]] :
            items \in ArchivesUpTo(MaxItems)}

Actions == {"", "build", "clean"}

\* What the parser is made from: SDK_VERSION, CURRENT_ARCH and
\* IPHONEOS_DEPLOYMENT_TARGET, all unset or all set.
ParserEnvs ==
    {[SDK_VERSION |-> "", CURRENT_ARCH |-> "", IPHONEOS_DEPLOYMENT_TARGET |-> ""],
     [SDK_VERSION |-> "9.3", CURRENT_ARCH |-> "arm64",
      IPHONEOS_DEPLOYMENT_TARGET |-> "8.0"]}

MainGroupPaths == {"/a/b"}

Configurations ==
    {"Debug", "Release", "Fastbuild", "Profile",
     "__TulsiTestRunner_Debug", "__TulsiTestRunner_Profile"}

VersionCodes == {"1130", "1131", "0730", "730"}

(***************************************************************************)
(* BazelBuildBridge.Run                                                    *)
(***************************************************************************)
NoResult == [raised |-> FALSE, message |-> "not called", code |-> -1]

NoCommand == [raised |-> FALSE, command |-> <<>>, retval |-> -1]

NotInstalled == [raised |-> FALSE, code |-> -1]

\* Before _RunBazelAndPatchOutput is entered.
NoPatch == [main_group_path |-> "", project_dir |-> "", called |-> FALSE,
            line |-> "", result |-> ""]

NoStream == [output |-> "", to_write |-> "", pipe |-> "", child |-> "none",
             at |-> "none", returncode_set |-> FALSE, linebuf |-> "",
             deliveries |-> <<>>, live |-> 0]

\* os.environ with name read as value.
Read(env, name, value) == [k \in DOMAIN env \cup {name} |->
                              IF k = name THEN value ELSE env[k]]

\* One stage of Run, with the code it reported (-1: it raised).
Stage(name, code) == [stage |-> name, code |-> code]

InitWith(argLists, actions) ==
    /\ pc = "Run"
    /\ executed = <<>>
    /\ retval = -1
    /\ environ \in {[ACTION |-> a, cwd |-> m] : a \in actions, m \in MainGroupPaths}
    /\ args \in argLists
    /\ parser = NewParser("", "", "", "")
    /\ parse_out = NoResult
    /\ command = NoCommand
    /\ fs \in {[tree |-> t, built |-> NothingBuilt, bazel_bin |-> "none",
               makedirs |-> "not called"] :
                    t \in PriorTrees}
    /\ install_out = NotInstalled
    /\ gone_stale = {}
    /\ patch = NoPatch
    /\ stream = NoStream

\* The Xcode action Run acts on: an empty ACTION means 'build'.
xcode_action == IF environ.ACTION = "" THEN "build" ELSE environ.ACTION

\* Run, lines 316-324: any action but 'build' is ignored.
RunIgnored ==
    /\ pc = "Run"
    /\ xcode_action # "build"
    /\ pc' = "Returned"
    /\ retval' = 0
    /\ UNCHANGED <<ioVars, executed, environ, args, optVars, fsVars>>

\* Run, lines 326-335: a parser is made and parses args[1:].
StageParseOptions ==
    /\ pc = "Run"
    /\ xcode_action = "build"
    /\ \E e \in ParserEnvs :
        \E out \in {ParseOptions(
                      NewParser(e.SDK_VERSION, e.CURRENT_ARCH, environ.cwd,
                                e.IPHONEOS_DEPLOYMENT_TARGET),
                      args)} :
            /\ environ' = Read(Read(Read(environ, "SDK_VERSION", e.SDK_VERSION),
                                    "CURRENT_ARCH", e.CURRENT_ARCH),
                               "IPHONEOS_DEPLOYMENT_TARGET",
                               e.IPHONEOS_DEPLOYMENT_TARGET)
            /\ parser' = out.parser
            /\ parse_out' = [raised |-> out.raised, message |-> out.message,
                             code |-> out.code]
            /\ executed' = Append(executed, Stage("ParseOptions", out.code))
            /\ pc' = IF out.raised THEN "Raised"
                     ELSE IF out.code # 0 THEN "Returned" ELSE "BuildCommand"
            /\ retval' = IF ~out.raised /\ out.code # 0 THEN out.code ELSE retval
    /\ UNCHANGED <<ioVars, args, command, fsVars>>

\* Run, lines 337-342: the command is built.
StageBuildCommand ==
    /\ pc = "BuildCommand"
    /\ \E configuration \in Configurations, reported_version \in VersionCodes :
        \E out \in {BuildBazelCommand(parser, configuration, reported_version)} :
            /\ environ' = Read(Read(environ, "CONFIGURATION", configuration),
                               "XCODE_VERSION_ACTUAL", reported_version)
            /\ command' = out
            /\ executed' = Append(executed, Stage("BuildCommand", out.retval))
            /\ pc' = IF out.raised THEN "Raised"
                     ELSE IF out.retval # 0 THEN "Returned" ELSE "RunBuild"
            /\ retval' = IF ~out.raised /\ out.retval # 0 THEN out.retval ELSE retval
    /\ UNCHANGED <<ioVars, args, parser, parse_out, fsVars>>

\* What the pipeline's build may leave: nothing, a bundle, an archive.
RunArtifacts ==
    {NothingBuilt,
     [bundle |-> [present |-> TRUE,
                  tree |-> [q \in {<<>>, <<"Info.plist">>} |->
                              IF q = <<>> THEN Dir(DefaultDirMode)
                              ELSE File("aa", DefaultFileMode)]],
      ipa |-> NoIpa],
     [bundle |-> NoBundle,
      ipa |-> [present |-> TRUE,
               items |-> <<Item("Payload/App.app/Info.plist",
                                ExternalAttr(32768 + 420, 0), "aa")>>]]}

\* The exit codes of the build tool: success, failures, death by a signal.
BazelExitCodes == {0, 1, 2, -9}

\* The exit codes of xcrun codesign.
CodesignExitCodes == {0, 1}

\* A Run that would go on to the next stage whatever the build's exit code.
StageRunBuildGoesOn ==
    /\ pc = "RunBuild"
    /\ \E exit_code \in BazelExitCodes, built \in RunArtifacts :
        /\ fs' = [fs EXCEPT !.built = built]
        /\ executed' = Append(executed, Stage("RunBuild", exit_code))
        /\ pc' = "VerifyOutputRoot"
        /\ retval' = retval
    /\ UNCHANGED <<ioVars, environ, args, optVars, install_out, gone_stale>>

\* Run, lines 344-352: the child's exit code is passed through; the child
\* leaves what it built under bazel-bin.
StageRunBuild ==
    /\ pc = "RunBuild"
    /\ \E exit_code \in BazelExitCodes, built \in RunArtifacts :
        /\ fs' = [fs EXCEPT !.built = built]
        /\ executed' = Append(executed, Stage("RunBuild", exit_code))
        /\ pc' = IF exit_code # 0 THEN "Returned" ELSE "VerifyOutputRoot"
        /\ retval' = IF exit_code # 0 THEN exit_code ELSE retval
    /\ UNCHANGED <<ioVars, environ, args, optVars, install_out, gone_stale>>

\* What is at bazel-bin when the build has ended: "none" (no symlink there),
\* a symlink to a directory ("dir"), to nothing ("dangling") or to a regular
\* file ("file").
BazelBinStates == {"none", "dir", "dangling", "file"}

\* A check that would let a failed os.makedirs pass.
EnsureIgnoringOSError(bazel_bin, makedirs_ok) ==
    IF bazel_bin \in {"none", "dir"}
    THEN [code |-> 0, bazel_bin |-> bazel_bin, makedirs |-> "not called"]
    ELSE IF bazel_bin = "dangling" /\ makedirs_ok
    THEN [code |-> 0, bazel_bin |-> "dir", makedirs |-> "ok"]
    ELSE [code |-> 0, bazel_bin |-> bazel_bin, makedirs |-> "OSError"]

\* _EnsureBazelBinSymlinkIsValid: without a symlink it warns and returns 0;
\* when the symlink's real path is not a directory os.makedirs is called,
\* which raises OSError when it fails and always when a file is there.
EnsureBazelBinSymlinkIsValid(bazel_bin, makedirs_ok) ==
    IF bazel_bin = "none"
    THEN [code |-> 0, bazel_bin |-> bazel_bin, makedirs |-> "not called"]
    ELSE IF bazel_bin = "dir"
    THEN [code |-> 0, bazel_bin |-> bazel_bin, makedirs |-> "not called"]
    ELSE IF bazel_bin = "dangling" /\ makedirs_ok
    THEN [code |-> 0, bazel_bin |-> "dir", makedirs |-> "ok"]
    ELSE [code |-> 20, bazel_bin |-> bazel_bin, makedirs |-> "OSError"]

\* Run, lines 354-359 (and 388 when nothing is to be installed).
StageVerifyOutputRoot ==
    /\ pc = "VerifyOutputRoot"
    /\ \E bazel_bin \in BazelBinStates, makedirs_ok \in BOOLEAN :
        \E out \in {EnsureBazelBinSymlinkIsValid(bazel_bin, makedirs_ok)} :
            /\ fs' = [fs EXCEPT !.bazel_bin = out.bazel_bin,
                                !.makedirs = out.makedirs]
            /\ executed' = Append(executed, Stage("VerifyOutputRoot", out.code))
            /\ pc' = IF out.code = 0 /\ parser.install_generated_artifacts
                     THEN "InstallBundle" ELSE "Returned"
            /\ retval' = out.code
    /\ UNCHANGED <<ioVars, environ, args, optVars, install_out, gone_stale>>

\* The paths under the destination that going from tree to after took away.
TookAway(tree, after) ==
    {q \in DOMAIN tree : IsPrefixOf(Where(OutputPath), q) /\ q \notin DOMAIN after}

\* Run, lines 360-365.
StageInstallBundle ==
    /\ pc = "InstallBundle"
    /\ \E rm \in RmtreeOutcomes(fs.tree, Where(OutputPath)),
          copy \in {"ok", "OSError", "Error"} :
        \E out \in {InstallBundleArtifact(fs.tree, fs.built, OutputPath, rm, copy)} :
            /\ environ' = Read(environ, "CODESIGNING_FOLDER_PATH", OutputPath)
            /\ fs' = [fs EXCEPT !.tree = out.tree]
            /\ install_out' = [raised |-> out.raised, code |-> out.code]
            /\ gone_stale' = TookAway(fs.tree, out.tree)
            /\ executed' = Append(executed, Stage("InstallBundle", out.code))
            /\ pc' = IF out.raised THEN "Raised"
                     ELSE IF out.code # 0 THEN "Returned" ELSE "InstallDSYM"
            /\ retval' = IF ~out.raised /\ out.code # 0 THEN out.code ELSE retval
    /\ UNCHANGED <<ioVars, args, optVars>>

\* _InstallDSYMBundles, by what it finds: whether DWARF_DSYM_FILE_NAME is
\* set (os.path.join raises on None), whether a stale dSYM is at the
\* destination and its rmtree goes through, whether the dSYM of that name is
\* under the build path, whether BAZEL_BINARY_DSYM is set and leads to one,
\* and how the copy ends.
InstallDSYMBundles(d) ==
    IF ~d.named THEN [raised |-> TRUE, code |-> -1]
    ELSE IF d.stale /\ ~d.rmtree_ok THEN [raised |-> FALSE, code |-> 700]
    ELSE IF d.found \/ (d.override /\ d.override_found)
    THEN [raised |-> d.copy = "Error",
          code |-> IF d.copy = "ok" THEN 0 ELSE IF d.copy = "OSError" THEN 650 ELSE -1]
    ELSE [raised |-> FALSE, code |-> 0]

DSYMFindings ==
    [named : BOOLEAN, stale : BOOLEAN, rmtree_ok : BOOLEAN, found : BOOLEAN,
     override : BOOLEAN, override_found : BOOLEAN, copy : {"ok", "OSError", "Error"}]

\* A re-signing that would start only above the threshold.
ShouldResignAbove(test_host_binary, xcode_version_minor, platform_name) ==
    /\ test_host_binary # ""
    /\ StrToInt(xcode_version_minor) > 730
    /\ platform_name # "iphonesimulator"

\* Whether the test host is to be re-signed (lines 376-380).
ShouldResign(test_host_binary, xcode_version_minor, platform_name) ==
    /\ test_host_binary # ""
    /\ StrToInt(xcode_version_minor) >= 730
    /\ platform_name # "iphonesimulator"

\* Run, lines 367-380 (and 388 when the test host is not to be re-signed).
StageInstallDSYM ==
    /\ pc = "InstallDSYM"
    /\ \E d \in DSYMFindings, test_host \in {"", "/out/Host.app/Host"},
          minor \in {"0720", "0730"}, platform \in {"iphoneos", "iphonesimulator"} :
        \E out \in {InstallDSYMBundles(d)} :
            /\ environ' = IF out.raised \/ out.code # 0 THEN environ
                          ELSE Read(Read(Read(environ, "XCODE_VERSION_MINOR", minor),
                                         "PLATFORM_NAME", platform),
                                    "TEST_HOST", test_host)
            /\ executed' = Append(executed, Stage("InstallDSYM", out.code))
            /\ pc' = IF out.raised THEN "Raised"
                     ELSE IF out.code = 0 /\ ShouldResign(test_host, minor, platform)
                     THEN "ResignTestHost" ELSE "Returned"
            /\ retval' = IF out.raised THEN retval ELSE out.code
    /\ UNCHANGED <<ioVars, args, optVars, fsVars>>

\* _ResignTestHost: identity is "raise" (the inspection command failed and
\* check_output raised), "none" (no Authority= line) or "found"; then the
\* two frameworks are re-signed, each codesign ending with its exit code.
ResignTestHost(identity, first, second) ==
    IF identity = "raise" THEN [raised |-> TRUE, code |-> -1]
    ELSE IF identity = "none" THEN [raised |-> FALSE, code |-> 800]
    ELSE IF first # 0 THEN [raised |-> FALSE, code |-> 800 + first]
    ELSE IF second # 0 THEN [raised |-> FALSE, code |-> 800 + second]
    ELSE [raised |-> FALSE, code |-> 0]

\* Run, lines 381-388.
StageResignTestHost ==
    /\ pc = "ResignTestHost"
    /\ \E identity \in {"raise", "none", "found"},
          first \in CodesignExitCodes, second \in CodesignExitCodes :
        \E out \in {ResignTestHost(identity, first, second)} :
            /\ executed' = Append(executed, Stage("ResignTestHost", out.code))
            /\ pc' = IF out.raised THEN "Raised" ELSE "Returned"
            /\ retval' = IF out.raised THEN retval ELSE out.code
    /\ UNCHANGED <<ioVars, environ, args, optVars, fsVars>>

(***************************************************************************)
(* Run as a whole.                                                         *)
(***************************************************************************)
Init == InitWith(RunArgLists, Actions)

Next ==
    \/ RunIgnored
    \/ StageParseOptions
    \/ StageBuildCommand
    \/ StageRunBuild
    \/ StageVerifyOutputRoot
    \/ StageInstallBundle
    \/ StageInstallDSYM
    \/ StageResignTestHost

Spec == Init /\ [][Next]_vars

(***************************************************************************)
(* The option parser and the command builder on every enumerated argument  *)
(* list: Run up to the built command.                                      *)
(***************************************************************************)
InitOpts ==
    /\ InitWith(ArgLists, {"build"})
    /\ fs.tree = BaseTree

NextOpts == StageParseOptions \/ StageBuildCommand

SpecOpts == InitOpts /\ [][NextOpts]_vars

(***************************************************************************)
(* BazelBuildBridge._RunBazelAndPatchOutput: the patch function.           *)
(***************************************************************************)
\* How many characters of s in a row, from position i on, are of the class:
\* digits (digit = TRUE, \d) or anything but a colon (digit = FALSE, [^:]).
RECURSIVE Span(_, _, _)
Span(s, i, digit) ==
    IF i > Len(s) THEN 0
    ELSE IF (digit /\ IsDigit(CharAt(s, i))) \/ (~digit /\ CharAt(s, i) # ":")
    THEN 1 + Span(s, i + 1, digit)
    ELSE 0

\* Whether  ([^:]+):\d+:  matches from position i of the line.  [^:]+ takes
\* every character up to the first colon and giving some back never helps,
\* the next one having to be a colon; \d+ takes every digit likewise.
MatchesAt(line, i) ==
    LET path == Span(line, i, FALSE)
        digits == Span(line, i + path + 1, TRUE)
    IN  /\ path >= 1
        /\ i + path <= Len(line)
        /\ CharAt(line, i + path) = ":"
        /\ digits >= 1
        /\ i + path + 1 + digits <= Len(line)
        /\ CharAt(line, i + path + 1 + digits) = ":"

\* A regex that would be searched for in the line, not matched at its start.
XcodeParsableLineSearch(line) == \E i \in 1..Len(line) : MatchesAt(line, i)

\* xcode_parsable_line_regex.match(line)
XcodeParsableLineMatch(line) == MatchesAt(line, 1)

\* patch_xcode_parsable_line: the identity when the two directories are the
\* same, PatchOutputLine otherwise.
PatchOutputLine(main_group_path, project_dir, line) ==
    IF main_group_path # project_dir /\ XcodeParsableLineMatch(line)
    THEN main_group_path \o "/" \o line
    ELSE line

\* The strings of at most n characters of an alphabet.
RECURSIVE StringsUpTo(_, _)
StringsUpTo(alphabet, n) ==
    IF n = 0 THEN {""}
    ELSE LET shorter == StringsUpTo(alphabet, n - 1)
         IN  shorter \cup {t \o c : t \in shorter, c \in alphabet}

\* The lines the patch function is given: every short line of a letter, a
\* digit, a colon and a blank, and a compiler's line.
Lines == StringsUpTo({"f", "1", ":", " "}, MaxLine) \cup {"file.m:12: error: x"}

\* os.getcwd() and PROJECT_DIR
ProjectDirs == {"/a/b", "/a/c"}

InitPatch ==
    /\ pc = "RunBuild"
    /\ executed = <<>>
    /\ retval = -1
    /\ \E project_dir \in ProjectDirs, line \in Lines :
        /\ environ = [ACTION |-> "build", cwd |-> "/a/b", PROJECT_DIR |-> project_dir]
        /\ patch = [NoPatch EXCEPT !.main_group_path = "/a/b",
                                   !.project_dir = project_dir,
                                   !.line = line]
    /\ args = <<>>
    /\ parser = NewParser("", "", "/a/b", "")
    /\ parse_out = NoResult
    /\ command = NoCommand
    /\ fs = [tree |-> BaseTree, built |-> NothingBuilt, bazel_bin |-> "none",
               makedirs |-> "not called"]
    /\ install_out = NotInstalled
    /\ gone_stale = {}
    /\ stream = NoStream

\* patch_xcode_parsable_line(line)
PatchLine ==
    /\ pc = "RunBuild"
    /\ ~patch.called
    /\ patch' = [patch EXCEPT
                    !.called = TRUE,
                    !.result = PatchOutputLine(patch.main_group_path,
                                               patch.project_dir, patch.line)]
    /\ UNCHANGED <<runVars, optVars, fsVars, stream>>

NextPatch == PatchLine

SpecPatch == InitPatch /\ [][NextPatch]_vars

(***************************************************************************)
(* BazelBuildBridge._RunBazelAndPatchOutput: the child and the read loop.  *)
(* The child writes its output into the pipe a character at a time, closes *)
(* its end when it is through and is then seen to have exited; the parent  *)
(* is at process.stdout.readline(), at process.poll(), at                  *)
(* process.communicate(), or done.                                         *)
(***************************************************************************)
\* What the children write: every short text of two letters and newlines.
Outputs == StringsUpTo({"a", "b", "\n"}, MaxOut)

InitStream ==
    /\ pc = "RunBuild"
    /\ executed = <<>>
    /\ retval = -1
    /\ environ = [ACTION |-> "build", cwd |-> "/a/b", PROJECT_DIR |-> "/a/b"]
    /\ args = <<>>
    /\ parser = NewParser("", "", "/a/b", "")
    /\ parse_out = NoResult
    /\ command = NoCommand
    /\ fs = [tree |-> BaseTree, built |-> NothingBuilt, bazel_bin |-> "none",
               makedirs |-> "not called"]
    /\ install_out = NotInstalled
    /\ gone_stale = {}
    /\ patch = NoPatch
    /\ \E output \in Outputs :
        stream = [NoStream EXCEPT !.output = output, !.to_write = output,
                                  !.child = "running", !.at = "readline"]

\* The child writes the next character of its output.
ChildWrites ==
    /\ stream.child = "running"
    /\ stream.to_write # ""
    /\ stream' = [stream EXCEPT
                    !.pipe = @ \o CharAt(stream.to_write, 1),
                    !.to_write = SubSeq(@, 2, Len(@))]
    /\ UNCHANGED <<runVars, optVars, fsVars, patch>>

\* The child, through with writing, closes its end of the pipe.
ChildCloses ==
    /\ stream.child = "running"
    /\ stream.to_write = ""
    /\ stream' = [stream EXCEPT !.child = "closed"]
    /\ UNCHANGED <<runVars, optVars, fsVars, patch>>

\* The child has exited: poll() will find it so.
ChildExits ==
    /\ stream.child = "closed"
    /\ stream' = [stream EXCEPT !.child = "exited"]
    /\ UNCHANGED <<runVars, optVars, fsVars, patch>>

\* file.readline() on what is in the pipe: through the first newline, or,
\* the other end being closed, all of it.
ReadlineOf(pipe) ==
    LET at == FindFrom(pipe, "\n", 1)
    IN  IF at = 0 THEN pipe ELSE SubSeq(pipe, 1, at)

\* The body of 'for line in process.stdout.readline()': the loop variable
\* goes over the characters of the line that was read; s is the line
\* buffer, the deliveries and the number of them so far.
RECURSIVE ForLineIn(_, _)
ForLineIn(chars, s) ==
    IF chars = "" THEN s
    ELSE LET line == CharAt(chars, 1)
             rest == SubSeq(chars, 2, Len(chars))
         IN  IF ~EndsWith(line, "\n")
             THEN ForLineIn(rest, [s EXCEPT !.linebuf = @ \o line])
             ELSE ForLineIn(rest, [s EXCEPT
                                    !.deliveries = Append(@, s.linebuf \o line),
                                    !.live = @ + 1,
                                    !.linebuf = ""])

\* process.stdout.readline() returns, when a whole line is in the pipe or
\* the other end is closed, and the for loop goes over what it returned.
ReadLine ==
    /\ stream.at = "readline"
    /\ FindFrom(stream.pipe, "\n", 1) # 0 \/ stream.child # "running"
    /\ LET read == ReadlineOf(stream.pipe)
       IN  stream' = [ForLineIn(read, stream) EXCEPT
                        !.pipe = SubSeq(stream.pipe, Len(read) + 1, Len(stream.pipe)),
                        !.at = "poll"]
    /\ UNCHANGED <<runVars, optVars, fsVars, patch>>

\* process.poll(), and the while condition after it.
Poll ==
    /\ stream.at = "poll"
    /\ stream' = [stream EXCEPT
                    !.returncode_set = (stream.child = "exited"),
                    !.at = IF stream.child = "exited" THEN "communicate"
                           ELSE "readline"]
    /\ UNCHANGED <<runVars, optVars, fsVars, patch>>

\* A flush that would forget the line buffer.
FlushedLinesWithoutLinebuf(linebuf, output) == Split(output, "\n")

\* The lines of the last for loop: (linebuf + output).split('\n')
FlushedLines(linebuf, output) == Split(linebuf \o output, "\n")

\* process.communicate() reads what is left in the pipe, and the last for
\* loop gives each line of it, after the line buffer, to the patch function.
Communicate ==
    /\ stream.at = "communicate"
    /\ stream' = [stream EXCEPT
                    !.deliveries = @ \o FlushedLines(stream.linebuf, stream.pipe),
                    !.pipe = "",
                    !.at = "done"]
    /\ UNCHANGED <<runVars, optVars, fsVars, patch>>

NextStream ==
    \/ ChildWrites
    \/ ChildCloses
    \/ ChildExits
    \/ ReadLine
    \/ Poll
    \/ Communicate

SpecStream == InitStream /\ [][NextStream]_vars

(***************************************************************************)
(* The installer on every enumerated artifact, install after install: the  *)
(* build leaves an artifact, _InstallBundleArtifact installs it over what  *)
(* the installs before it left.                                            *)
(***************************************************************************)
InitInstall ==
    /\ pc = "AwaitBuild"
    /\ executed = <<>>
    /\ retval = -1
    /\ environ = [ACTION |-> "build", cwd |-> "/a/b",
                  CODESIGNING_FOLDER_PATH |-> OutputPath]
    /\ args = <<>>
    /\ parser = NewParser("", "", "/a/b", "")
    /\ parse_out = NoResult
    /\ command = NoCommand
    /\ fs \in {[tree |-> t, built |-> NothingBuilt, bazel_bin |-> "dir",
               makedirs |-> "not called"] :
                    t \in PriorTrees}
    /\ install_out = NotInstalled
    /\ gone_stale = {}
    /\ patch = NoPatch
    /\ stream = NoStream

\* The child process leaves what it built under bazel-bin.
BuildArtifact ==
    /\ pc = "AwaitBuild"
    /\ \E built \in Artifacts : fs' = [fs EXCEPT !.built = built]
    /\ install_out' = NotInstalled
    /\ gone_stale' = {}
    /\ pc' = "AwaitInstall"
    /\ UNCHANGED <<ioVars, executed, retval, environ, args, optVars>>

\* _InstallBundleArtifact(CODESIGNING_FOLDER_PATH)
InstallArtifact ==
    /\ pc = "AwaitInstall"
    /\ \E rm \in RmtreeOutcomes(fs.tree, Where(OutputPath)),
          copy \in (IF fs.built.bundle.present THEN {"ok", "OSError", "Error"}
                    ELSE {"ok"}) :
        \E out \in {InstallBundleArtifact(fs.tree, fs.built, OutputPath, rm, copy)} :
            /\ fs' = [fs EXCEPT !.tree = out.tree]
            /\ install_out' = [raised |-> out.raised, code |-> out.code]
            /\ gone_stale' = TookAway(fs.tree, out.tree)
    /\ pc' = "AwaitBuild"
    /\ UNCHANGED <<ioVars, executed, retval, environ, args, optVars>>

NextInstall == BuildArtifact \/ InstallArtifact

SpecInstall == InitInstall /\ [][NextInstall]_vars

(***************************************************************************)
(* BazelBuildBridge._InstallDSYMBundles on paths: the environment names    *)
(* the dSYM, the build path and the override path, the filesystem holds    *)
(* the dSYM bundles the build left and a stale one at the destination.     *)
(***************************************************************************)
\* os.environ.get(name, default)
Getenv(env, name, default) == IF name \in DOMAIN env THEN env[name] ELSE default

\* What stands at where, as a tree of its own.
Subtree(tree, where) ==
    [x \in {SubSeq(q, Len(where) + 1, Len(q)) :
                q \in {y \in DOMAIN tree : IsPrefixOf(where, y)}} |->
        tree[where \o x]]

\* bazel_dsym_path[len(build_path_prefix) + 1:]
SliceAfter(bazel_dsym_path, build_path_prefix) ==
    SubSeq(bazel_dsym_path, Len(build_path_prefix) + 2, Len(bazel_dsym_path))

\* Lines 593-596: the override path without the build-path prefix.
OverridePath(bazel_dsym_path, build_path_prefix) ==
    IF StartsWith(bazel_dsym_path, build_path_prefix)
    THEN SliceAfter(bazel_dsym_path, build_path_prefix)
    ELSE bazel_dsym_path

\* self.build_path, set by _InstallBundleArtifact (lines 482-483).
BuildPath(env) == Join2("bazel-bin", Getenv(env, "BUILD_PATH", ""))

\* What _InstallDSYMBundles returns, with the paths it looked up and the one
\* it copied from.
DSYMResult(out, looked_up, source) ==
    [raised |-> out.raised, code |-> out.code, tree |-> out.tree,
     looked_up |-> looked_up, source |-> source]

\* _InstallDSYMBundles(output_dir) on the filesystem tree; rm is how the
\* rmtree of a stale destination ends, copy how shutil.copytree ends.
InstallDSYMBundlesFrom(tree, env, output_dir, rm, copy) ==
    IF "DWARF_DSYM_FILE_NAME" \notin DOMAIN env
    THEN DSYMResult(Threw(tree), <<>>, "")
    ELSE
    LET target_dsym == env.DWARF_DSYM_FILE_NAME
        output_full_path == Join2(output_dir, target_dsym)
        stale == IsDir(tree, Where(output_full_path))
        cleared == IF stale THEN Rmtree(tree, Where(output_full_path)) ELSE tree
        input_dsym_full_path == Join2(BuildPath(env), target_dsym)
        bazel_dsym_path == OverridePath(env.BAZEL_BINARY_DSYM,
                                        Getenv(env, "BUILD_PATH", ""))
        override_full_path == Join2(BuildPath(env), bazel_dsym_path)
    IN  IF stale /\ ~rm.ok THEN DSYMResult(Left(rm.left, 700), <<>>, "")
        ELSE IF IsDir(cleared, Where(input_dsym_full_path))
        THEN DSYMResult(
                CopyBundle(cleared, Subtree(cleared, Where(input_dsym_full_path)),
                           output_full_path, copy),
                <<input_dsym_full_path>>, input_dsym_full_path)
        ELSE IF "BAZEL_BINARY_DSYM" \notin DOMAIN env
        THEN DSYMResult(Left(cleared, 0), <<input_dsym_full_path>>, "")
        ELSE IF IsDir(cleared, Where(override_full_path))
        THEN DSYMResult(
                CopyBundle(cleared, Subtree(cleared, Where(override_full_path)),
                           output_full_path, copy),
                <<input_dsym_full_path, override_full_path>>, override_full_path)
        ELSE DSYMResult(Left(cleared, 0),
                        <<input_dsym_full_path, override_full_path>>, "")

\* BUILT_PRODUCTS_DIR
ProductsDir == "/out"

\* A dSYM bundle: a directory with its DWARF file.
DSYMBundle(content) ==
    [q \in {<<>>, <<"DWARF">>} |->
        IF q = <<>> THEN Dir(DefaultDirMode) ELSE File(content, DefaultFileMode)]

\* Where a dSYM bundle may stand before the install: stale at the
\* destination, and under bazel-bin beside and below the build path.
DSYMPlaces ==
    {<<"out", "App.dSYM">>,
     <<"bazel-bin", "App.dSYM">>, <<"bazel-bin", "a", "App.dSYM">>,
     <<"bazel-bin", "Bin.dSYM">>, <<"bazel-bin", "a", "Bin.dSYM">>}

DSYMDirs == [q \in {<<>>, <<"out">>, <<"bazel-bin">>, <<"bazel-bin", "a">>} |->
                Dir(DefaultDirMode)]

\* The stale bundle at the destination has a file of an earlier build.
StaleDSYMBundle == Put(DSYMBundle("old"), <<"Old">>, File("zz", DefaultFileMode))

\* The bytes of a bundle under bazel-bin identify it.
DSYMBytes(place) == IF Len(place) = 2 THEN place[2] ELSE "a/" \o place[3]

RECURSIVE WithBundles(_, _)
WithBundles(tree, places) ==
    IF places = {} THEN tree
    ELSE LET place == CHOOSE x \in places : TRUE
             bundle == IF place = <<"out", "App.dSYM">> THEN StaleDSYMBundle
                       ELSE DSYMBundle(DSYMBytes(place))
         IN  WithBundles(Copytree(tree, bundle, place), places \ {place})

DSYMTrees == {WithBundles(DSYMDirs, places) : places \in SUBSET DSYMPlaces}

\* BAZEL_BINARY_DSYM, where set.
OverridePaths == {"Bin.dSYM", "a/Bin.dSYM", "x/Bin.dSYM"}

\* The environment: every variable set or unset.
DSYMEnvs ==
    {[k \in names |->
        CASE k = "DWARF_DSYM_FILE_NAME" -> "App.dSYM"
          [] k = "BUILD_PATH" -> "a"
          [] k = "BUILT_PRODUCTS_DIR" -> ProductsDir
          [] OTHER -> ""] :
        names \in {{"BUILT_PRODUCTS_DIR"} \cup n :
                        n \in SUBSET {"DWARF_DSYM_FILE_NAME", "BUILD_PATH"}}}

WithOverride(env) ==
    {env} \cup {Read(env, "BAZEL_BINARY_DSYM", path) : path \in OverridePaths}

InitDSYM ==
    /\ pc = "InstallDSYM"
    /\ executed = <<>>
    /\ retval = -1
    /\ environ \in UNION {WithOverride(env) : env \in DSYMEnvs}
    /\ args = <<>>
    /\ parser = NewParser("", "", "/a/b", "")
    /\ parse_out = NoResult
    /\ command = NoCommand
    /\ fs \in {[tree |-> t, built |-> NothingBuilt, bazel_bin |-> "dir",
                 makedirs |-> "not called"] :
                    t \in DSYMTrees}
    /\ install_out = NotInstalled
    /\ gone_stale = {}
    /\ patch = NoPatch
    /\ stream = NoStream

\* Run, lines 367-369: _InstallDSYMBundles(BUILT_PRODUCTS_DIR).
InstallDSYM ==
    /\ pc = "InstallDSYM"
    /\ \E rm \in RmtreeOutcomes(fs.tree, <<"out", "App.dSYM">>),
          copy \in {"ok", "OSError", "Error"} :
        \E out \in {InstallDSYMBundlesFrom(fs.tree, environ,
                                           environ.BUILT_PRODUCTS_DIR, rm, copy)} :
            /\ fs' = [fs EXCEPT !.tree = out.tree]
            /\ install_out' = [raised |-> out.raised, code |-> out.code,
                               looked_up |-> out.looked_up, source |-> out.source]
            /\ gone_stale' = {q \in DOMAIN fs.tree : q \notin DOMAIN out.tree}
            /\ executed' = Append(executed, Stage("InstallDSYM", out.code))
            /\ pc' = IF out.raised THEN "Raised" ELSE "Returned"
            /\ retval' = IF out.raised THEN retval ELSE out.code
    /\ UNCHANGED <<ioVars, environ, args, optVars>>

NextDSYM == InstallDSYM

SpecDSYM == InitDSYM /\ [][NextDSYM]_vars

(***************************************************************************)
(* Claims about the option parser and the command builder (SpecOpts).      *)
(***************************************************************************)
\* ParseOptions was called and accepted the argument list.
Accepted == ~parse_out.raised /\ parse_out.code = 0

\* ParseOptions was called (and returned or raised).
ParseCalled == Len(executed) >= 1

\* _BuildBazelCommand was called (and returned or raised).
CommandCalled == Len(executed) >= 2

\* The flag name of an entry: the longest prefix that holds no '='.
FlagName(entry) ==
    LET k == CHOOSE n \in 0..Len(entry) :
                /\ \A i \in 1..n : CharAt(entry, i) # "="
                /\ n = Len(entry) \/ CharAt(entry, n + 1) = "="
    IN  SubSeq(entry, 1, k)

\* The flag names of a list of entries that are outside the allow-list.
ScopedNames(entries) ==
    {FlagName(entries[i]) : i \in 1..Len(entries)} \ {"--copt", "--config", "--define"}

\* C2 (as claimed): after any sequence of option runs the parser accepted, no
\* flag name outside the allow-list is both in the global entry list and in
\* a named configuration's entry list of the same mapping, whichever scope
\* received the name first.
C2_NoNameInBothScopes ==
    Accepted =>
        \A m \in {parser.startup_options, parser.build_options} :
            \A c \in DOMAIN m \ {ALL_CONFIGS} :
                ScopedNames(Get(m, ALL_CONFIGS)) \cap ScopedNames(m[c]) = {}

\* r is g followed by own, element by element.
IsConcat(r, g, own) ==
    /\ Len(r) = Len(g) + Len(own)
    /\ \A i \in 1..Len(g) : r[i] = g[i]
    /\ \A j \in 1..Len(own) : r[Len(g) + j] = own[j]

\* The configurations options are asked for: the known ones and every key a
\* run named.
ConfigsOf(p) ==
    (Range(KNOWN_CONFIGS) \cup DOMAIN p.startup_options \cup DOMAIN p.build_options)
    \ {ALL_CONFIGS}

\* C3: after any sequence of accepted option runs and for every configuration
\* C, GetStartupOptions(C) is the global entries followed by C's own, and
\* what GetBuildOptions(C) returns (under the version code the command was
\* built with) begins with the global entries followed by C's own, holds
\* every global entry, and has only derived version flags after them.
C3_GlobalThenOwn ==
    Accepted =>
        \A c \in ConfigsOf(parser) :
            /\ IsConcat(GetStartupOptions(parser, c),
                        Get(parser.startup_options, ALL_CONFIGS),
                        Get(parser.startup_options, c))
            /\ \A v \in (IF CommandCalled THEN {environ.XCODE_VERSION_ACTUAL} ELSE {}) :
                \A r \in {GetBuildOptions(parser, c, v)} :
                    LET g == Get(parser.build_options, ALL_CONFIGS)
                        own == Get(parser.build_options, c)
                        n == Len(g) + Len(own)
                    IN  ~r.raised =>
                            /\ Len(r.value) >= n
                            /\ IsConcat(SubSeq(r.value, 1, n), g, own)
                            /\ \A i \in 1..Len(g) : InList(r.value, g[i])
                            /\ \A i \in (n + 1)..Len(r.value) :
                                \/ StartsWith(r.value[i], "--xcode_version=")
                                \/ StartsWith(r.value[i], "--ios_sdk_version=")

\* C3's case: runs for the global key and for Debug were accepted, in both
\* mappings' reach, and the command was built for Debug.
C3_Witness ==
    /\ Accepted
    /\ CommandCalled
    /\ ~command.raised
    /\ environ.CONFIGURATION = "Debug"
    /\ Len(Get(parser.startup_options, ALL_CONFIGS)) > 0
    /\ Len(Get(parser.startup_options, "Debug")) > 0

\* C4 (as claimed): ParseOptions returns a usage error with a non-zero code,
\* and does not raise, for every argument list that lacks the --bazel marker,
\* has no token after it, or has no target before it; and returns 0 for
\* <targets> --bazel <path> with nothing after.
C4_UsageErrorsAreReturned ==
    ParseCalled =>
        LET marked == InList(args, "--bazel")
            at == Index(args, "--bazel")
            malformed == ~marked \/ at = Len(args) \/ at = 1
        IN  /\ malformed =>
                ~parse_out.raised /\ parse_out.code # 0 /\ parse_out.message = "usage"
            /\ (marked /\ at > 1 /\ Len(args) = at + 1) =>
                ~parse_out.raised /\ parse_out.code = 0

\* The part of C4 the code keeps: of the argument lists that hold the marker.
C4_MarkedListsOnly ==
    (ParseCalled /\ InList(args, "--bazel")) => C4_UsageErrorsAreReturned

\* The configuration C5 says the command is built for.
ClaimedConfiguration(name) ==
    LET prefixed == StartsWith(name, "__TulsiTestRunner_")
        bare == IF prefixed THEN SubSeq(name, 19, Len(name)) ELSE name
    IN  IF bare \in {"Debug", "Release", "Fastbuild"} THEN bare ELSE "Fastbuild"

\* C5 (as claimed): for every CONFIGURATION, _BuildBazelCommand succeeds with
\* code 0 and returns [executable] ++ GetStartupOptions(R) ++ ['build'] ++
\* GetBuildOptions(R) ++ targets, R the configuration the name resolves to.
C5_CommandBuiltForEveryConfiguration ==
    CommandCalled =>
        LET R == ClaimedConfiguration(environ.CONFIGURATION)
        IN  /\ ~command.raised
            /\ command.retval = 0
            /\ command.command =
                <<parser.bazel_executable>>
                \o GetStartupOptions(parser, R)
                \o <<"build">>
                \o GetBuildOptions(parser, R, environ.XCODE_VERSION_ACTUAL).value
                \o parser.targets

\* The part of C5 the code keeps: whenever _BuildBazelCommand returns.
C5_WhenItReturns ==
    (CommandCalled /\ ~command.raised) => C5_CommandBuiltForEveryConfiguration

\* 'major.minor[.fix]' of a version code, by its value: fix is the last
\* digit, minor the one before it, major the digits before that.
VersionStringOf(code) ==
    LET n == StrToInt(code)
    IN  IntToStr(n \div 100) \o "." \o IntToStr((n \div 10) % 10)
        \o (IF n % 10 = 0 THEN "" ELSE "." \o IntToStr(n % 10))

IsVersionCode(code, lengths) ==
    /\ Len(code) \in lengths
    /\ \A i \in 1..Len(code) : CharAt(code, i) \in Range(Digits)

\* The build options of the built command: what stands between 'build' and
\* the targets.
BuildPart ==
    SubSeq(command.command,
           Len(GetStartupOptions(
                  parser, ResolveConfiguration(environ.CONFIGURATION))) + 3,
           Len(command.command) - Len(parser.targets))

HasVersionFlag(entries) ==
    \E i \in 1..Len(entries) : StartsWith(entries[i], "--xcode_version")

\* The command was built, and its build options carry, right after the
\* stored entries, '--xcode_version=<the version string of the code>', unless
\* a stored entry begins with '--xcode_version' and none was appended.
VersionFlagAppended(code) ==
    LET R == ResolveConfiguration(environ.CONFIGURATION)
        stored == Get(parser.build_options, ALL_CONFIGS)
                  \o Get(parser.build_options, R)
    IN  /\ ~command.raised
        /\ IF HasVersionFlag(stored)
           THEN \A i \in (Len(stored) + 1)..Len(BuildPart) :
                    ~StartsWith(BuildPart[i], "--xcode_version")
           ELSE /\ Len(BuildPart) > Len(stored)
                /\ BuildPart[Len(stored) + 1]
                    = "--xcode_version=" \o VersionStringOf(code)

\* C10 (as claimed): for every 3- or 4-digit version code the version string
\* is 'major.minor', or 'major.minor.fix' when fix is not 0, and
\* GetBuildOptions appends '--xcode_version=<that string>' unless an entry
\* beginning with '--xcode_version' is there already.
C10_ThreeOrFourDigits ==
    (CommandCalled /\ IsVersionCode(environ.XCODE_VERSION_ACTUAL, {3, 4})) =>
        /\ GetXcodeVersionString(environ.XCODE_VERSION_ACTUAL)
            = [raised |-> FALSE,
               value |-> VersionStringOf(environ.XCODE_VERSION_ACTUAL)]
        /\ VersionFlagAppended(environ.XCODE_VERSION_ACTUAL)

\* C10 (amended): for every 4-digit version code the version string is
\* 'major.minor', or 'major.minor.fix' when fix is not 0, major being the
\* value of the two leading digits ("1130" gives "11.3", "1131" "11.3.1"),
\* and GetBuildOptions appends '--xcode_version=<that string>' right after
\* the stored entries unless one of them begins with '--xcode_version'; a
\* 3-digit code gives no version string: the call raises.
C10_FourDigits ==
    CommandCalled =>
        LET code == environ.XCODE_VERSION_ACTUAL
        IN  /\ IsVersionCode(code, {4}) =>
                /\ GetXcodeVersionString(code)
                    = [raised |-> FALSE, value |-> VersionStringOf(code)]
                /\ VersionFlagAppended(code)
            /\ code = "1130" => GetXcodeVersionString(code).value = "11.3"
            /\ code = "1131" => GetXcodeVersionString(code).value = "11.3.1"
            /\ IsVersionCode(code, {3}) => command.raised

\* C10's case: the command was built under version code 1131 and carries the
\* derived flag.
C10_Witness ==
    /\ CommandCalled
    /\ environ.XCODE_VERSION_ACTUAL = "1131"
    /\ ~command.raised
    /\ InList(command.command, "--xcode_version=11.3.1")

\* C10's other case: a stored --xcode_version entry keeps the derived flag out.
C10_WitnessOverride ==
    /\ CommandCalled
    /\ environ.XCODE_VERSION_ACTUAL = "1130"
    /\ ~command.raised
    /\ InList(command.command, "--xcode_version=9.0")
    /\ ~InList(command.command, "--xcode_version=11.3")

(***************************************************************************)
(* Claims about the installer (SpecInstall).                               *)
(***************************************************************************)
\* The destination's path, and the name every entry of its payload begins
\* with.
Destination == <<"out", "App.app">>

PayloadPrefix == "Payload/App.app/"

\* _InstallBundleArtifact has just returned success.
InstalledOk == pc = "AwaitBuild" /\ ~install_out.raised /\ install_out.code = 0

\* ... and it was by unpacking the archive.
UnpackedOk == InstalledOk /\ ~fs.built.bundle.present /\ fs.built.ipa.present

\* The items of the archive that was unpacked.
Unpacked == fs.built.ipa.items

\* Where an entry lands: the destination, then the entry's name without its
\* first two components.
LandsAt(entry) ==
    LET names == Split(entry.filename, "/")
    IN  Destination \o NonEmpty(SubSeq(names, 3, Len(names)))

\* The entries that are looked at: the ones whose name is not shorter than
\* 'Payload/App.app'.
LookedAt(entry) == Len(entry.filename) >= Len(PayloadPrefix) - 1

IsFileEntry(entry) == ~EndsWith(entry.filename, "/")

\* Bits 16..24 of the external attribute field.
StoredBits(entry) == entry.external_attr.high % 512

\* C8 (as claimed): after _UnpackTarget returned success, for each file entry
\* named Payload/<basename(dst)>/<subpath> the file at dst/<subpath> has the
\* entry's bytes and, when the entry's stored permission bits are not zero,
\* those bits.
C8_EachEntryItsFile ==
    UnpackedOk =>
        \A i \in 1..Len(Unpacked) :
            LET entry == Unpacked[i]
            IN  (IsFileEntry(entry) /\ StartsWith(entry.filename, PayloadPrefix)) =>
                    /\ IsFile(fs.tree, LandsAt(entry))
                    /\ fs.tree[LandsAt(entry)].content = entry.content
                    /\ StoredBits(entry) # 0 =>
                            fs.tree[LandsAt(entry)].mode = StoredBits(entry)

\* The largest member of a non-empty set of numbers.
Last(S) == CHOOSE n \in S : \A m \in S : m <= n

\* C8 (amended): after _UnpackTarget returned success, for each file entry
\* named Payload/<basename(dst)>/<subpath> there is a file at dst/<subpath>;
\* its bytes are those of the last entry, in archive order, that lands at
\* that path (an entry of any prefix lands where its name without the first
\* two components says), and its permission bits are the stored bits of the
\* last such entry whose stored bits are not zero.
C8_LastEntryItsFile ==
    UnpackedOk =>
        \A i \in 1..Len(Unpacked) :
            LET entry == Unpacked[i]
                same == {j \in 1..Len(Unpacked) :
                            /\ LookedAt(Unpacked[j])
                            /\ IsFileEntry(Unpacked[j])
                            /\ LandsAt(Unpacked[j]) = LandsAt(entry)}
                stored == {j \in same : StoredBits(Unpacked[j]) # 0}
            IN  (IsFileEntry(entry) /\ StartsWith(entry.filename, PayloadPrefix)) =>
                    /\ IsFile(fs.tree, LandsAt(entry))
                    /\ fs.tree[LandsAt(entry)].content = Unpacked[Last(same)].content
                    /\ stored # {} =>
                            fs.tree[LandsAt(entry)].mode
                                = StoredBits(Unpacked[Last(stored)])

\* C8's case: two entries of one name and different bytes were unpacked, the
\* first with stored bits, the second without.
C8_Witness ==
    /\ UnpackedOk
    /\ Len(Unpacked) = 2
    /\ StartsWith(Unpacked[1].filename, PayloadPrefix)
    /\ Unpacked[1].filename = Unpacked[2].filename
    /\ Unpacked[1].content # Unpacked[2].content
    /\ StoredBits(Unpacked[1]) # 0
    /\ StoredBits(Unpacked[2]) = 0

\* The entries of an archive that are looked at.
EntriesOf(built) ==
    {built.ipa.items[i] : i \in {j \in 1..Len(built.ipa.items) :
                                    LookedAt(built.ipa.items[j])}}

\* The paths the installed artifact makes under the destination: the bundle
\* directory's, or where the archive's entries land with the directories
\* down to them.
ArtifactPaths(built) ==
    IF built.bundle.present
    THEN {Destination \o q : q \in DOMAIN built.bundle.tree}
    ELSE UNION {{SubSeq(LandsAt(e), 1, n) : n \in Len(Destination)..Len(LandsAt(e))} :
                    e \in EntriesOf(built)}

\* The bytes the installed artifact has for the file at a path.
ArtifactBytes(built, q) ==
    IF built.bundle.present
    THEN {built.bundle.tree[SubSeq(q, Len(Destination) + 1, Len(q))].content}
    ELSE {e.content : e \in {x \in EntriesOf(built) :
                                IsFileEntry(x) /\ LandsAt(x) = q}}

\* C9: whatever was at the destination and however many installs went
\* before, after _InstallBundleArtifact returned success (by directory copy
\* or by unpacking) the paths under the destination are exactly the ones the
\* newly installed artifact makes, and every file there has bytes of that
\* artifact: nothing an earlier install left survives.
C9_DestinationFullyReplaced ==
    InstalledOk =>
        LET under == {q \in DOMAIN fs.tree : IsPrefixOf(Destination, q)}
        IN  /\ under = ArtifactPaths(fs.built)
            /\ \A q \in under :
                    IsFile(fs.tree, q) =>
                        fs.tree[q].content \in ArtifactBytes(fs.built, q)

\* C9's case: an install that succeeded took away a file that an earlier
\* install had put there.
C9_Witness ==
    /\ InstalledOk
    /\ <<"out", "App.app", "Frameworks", "X">> \in gone_stale

\* C9's other case: what was at the destination before any install is taken
\* away by an unpacking.
C9_WitnessPrior ==
    /\ UnpackedOk
    /\ <<"out", "App.app", "Old", "stale.txt">> \in gone_stale

(***************************************************************************)
(* Claims about the patch function (SpecPatch).                            *)
(***************************************************************************)
\* The line begins with a colon-free path prefix followed by ':', digits and
\* ':': some k characters without a colon, a colon, some d digits, a colon.
BeginsWithPathDigits(line) ==
    \E k \in 1..Len(line), d \in 1..Len(line) :
        /\ k + d + 2 <= Len(line)
        /\ \A i \in 1..k : CharAt(line, i) # ":"
        /\ CharAt(line, k + 1) = ":"
        /\ \A i \in (k + 2)..(k + 1 + d) : CharAt(line, i) \in Range(Digits)
        /\ CharAt(line, k + d + 2) = ":"

\* C6: for every line, when the main working directory differs from the
\* project directory and the line begins with a colon-free path prefix
\* followed by ':' digits ':', the patch function returns the main working
\* directory, '/' and the line; when the directories are equal or the line
\* does not begin so, it returns the line unchanged.
C6_PatchedWhenPathDigits ==
    patch.called =>
        IF patch.main_group_path # patch.project_dir
           /\ BeginsWithPathDigits(patch.line)
        THEN patch.result = patch.main_group_path \o "/" \o patch.line
        ELSE patch.result = patch.line

\* C6's case: the compiler's line was patched under different directories.
C6_Witness ==
    /\ patch.called
    /\ patch.main_group_path = "/a/b"
    /\ patch.project_dir = "/a/c"
    /\ patch.line = "file.m:12: error: x"
    /\ patch.result = "/a/b/file.m:12: error: x"

\* C6's other cases: the same line under equal directories, and a line that
\* holds the pattern but does not begin with it, are left as they are.
C6_WitnessEqualDirs ==
    /\ patch.called
    /\ patch.project_dir = patch.main_group_path
    /\ patch.line = "file.m:12: error: x"
    /\ patch.result = patch.line

C6_WitnessNotAtStart ==
    /\ patch.called
    /\ patch.project_dir # patch.main_group_path
    /\ patch.line = ":f:1:"
    /\ patch.result = patch.line

(***************************************************************************)
(* Claims about the read loop (SpecStream).                                *)
(***************************************************************************)
\* The texts of a list, one after another.
RECURSIVE Concat(_)
Concat(texts) == IF Len(texts) = 0 THEN "" ELSE Head(texts) \o Concat(Tail(texts))

\* The texts of a list with a newline between each two.
RECURSIVE Joined(_)
Joined(texts) ==
    IF Len(texts) = 0 THEN ""
    ELSE IF Len(texts) = 1 THEN Head(texts)
    ELSE Head(texts) \o "\n" \o Joined(Tail(texts))

\* How many newlines a text holds.
RECURSIVE Newlines(_)
Newlines(text) ==
    IF text = "" THEN 0
    ELSE (IF CharAt(text, 1) = "\n" THEN 1 ELSE 0)
         + Newlines(SubSeq(text, 2, Len(text)))

\* A newline-terminated line: one newline, at its end.
IsTerminatedLine(text) == EndsWith(text, "\n") /\ Newlines(text) = 1

Delivered == stream.deliveries

\* C7 (as claimed): in every interleaving, once the loop is done, the
\* deliveries to the patch function are the lines of the child's output, each
\* once and in the order written: every delivery but the last is a
\* newline-terminated line, and the last is the trailing unterminated text.
C7_TerminatedLinesThenTrailing ==
    stream.at = "done" =>
        /\ Len(Delivered) >= 1
        /\ \A i \in 1..(Len(Delivered) - 1) : IsTerminatedLine(Delivered[i])
        /\ Newlines(Delivered[Len(Delivered)]) = 0
        /\ Concat(Delivered) = stream.output

\* C7 (amended): in every interleaving, once the loop is done, each line of
\* the child's output was delivered to the patch function exactly once and
\* in the order written: the lines read while the child was not yet seen to
\* have exited were delivered newline-terminated, and at exit the rest (the
\* buffered partial line, then the unread output) was split at its newlines
\* and each piece delivered once, without a newline, the last piece being
\* the trailing unterminated text (empty when there is none).
C7_LiveLinesThenPieces ==
    stream.at = "done" =>
        LET live == SubSeq(Delivered, 1, stream.live)
            pieces == SubSeq(Delivered, stream.live + 1, Len(Delivered))
        IN  /\ \A i \in 1..Len(live) : IsTerminatedLine(live[i])
            /\ Len(pieces) >= 1
            /\ \A i \in 1..Len(pieces) : Newlines(pieces[i]) = 0
            /\ Concat(live) \o Joined(pieces) = stream.output

\* C7's case: the child wrote two lines and exited before the second was
\* read; the first was delivered from the loop, the second at exit.
C7_Witness ==
    /\ stream.at = "done"
    /\ stream.output = "a\nb\n"
    /\ Delivered = <<"a\n", "b", "">>

\* C7's other case: a partial line was in the line buffer at exit.
C7_WitnessPartial ==
    /\ stream.at = "done"
    /\ stream.output = "a\nb"
    /\ stream.live = 1
    /\ Delivered = <<"a\n", "b">>

(***************************************************************************)
(* C1: the stages of Run.                                                  *)
(***************************************************************************)
StageOrder ==
    <<"ParseOptions", "BuildCommand", "RunBuild", "VerifyOutputRoot",
      "InstallBundle", "InstallDSYM", "ResignTestHost">>

\* C1: with the build action the stages executed so far are always the first
\* ones of the fixed order ParseOptions, BuildCommand, RunBuild,
\* VerifyOutputRoot, InstallBundle, InstallDSYM, ResignTestHost, each once; a
\* stage that reported a non-zero code is the last one executed and Run
\* returns that code; and Run returns 0 only when every executed stage
\* reported 0.
C1_StagesInOrderFailureEnds ==
    /\ Len(executed) <= Len(StageOrder)
    /\ \A i \in 1..Len(executed) :
        /\ executed[i].stage = StageOrder[i]
        /\ executed[i].code # 0 =>
            /\ i = Len(executed)
            /\ pc \in {"Returned", "Raised"}
            /\ pc = "Returned" => retval = executed[i].code
    /\ (pc = "Returned" /\ retval = 0) =>
            \A i \in 1..Len(executed) : executed[i].code = 0

\* A run that went through every stage and failed in the last one.
C1_Witness ==
    /\ pc = "Returned"
    /\ Len(executed) = Len(StageOrder)
    /\ executed[Len(executed)].code # 0
    /\ retval = executed[Len(executed)].code

(***************************************************************************)
(* C11: when the test host is re-signed.                                   *)
(***************************************************************************)
\* Every stage before ResignTestHost was executed and reported 0.
EarlierStagesSucceeded ==
    /\ Len(executed) >= Len(StageOrder) - 1
    /\ \A i \in 1..(Len(StageOrder) - 1) : executed[i].code = 0

\* The test host is re-signed: _ResignTestHost is entered or was executed.
TestHostResigned == pc = "ResignTestHost" \/ Len(executed) = Len(StageOrder)

\* C11: in a run whose stages before ResignTestHost all succeeded, the test
\* host is re-signed if and only if TEST_HOST names a binary,
\* XCODE_VERSION_MINOR is at least 730 and PLATFORM_NAME is not
\* iphonesimulator.
C11_ResignedIffHostVersionPlatform ==
    EarlierStagesSucceeded =>
        (TestHostResigned <=>
            /\ environ.TEST_HOST # ""
            /\ StrToInt(environ.XCODE_VERSION_MINOR) >= 730
            /\ environ.PLATFORM_NAME # "iphonesimulator")

\* C11's case: the test host was re-signed at the threshold itself.
C11_Witness ==
    /\ EarlierStagesSucceeded
    /\ Len(executed) = Len(StageOrder)
    /\ environ.XCODE_VERSION_MINOR = "0730"
    /\ environ.PLATFORM_NAME = "iphoneos"

\* C11's other case: a run that ended without re-signing, on the simulator.
C11_WitnessNotResigned ==
    /\ EarlierStagesSucceeded
    /\ pc = "Returned"
    /\ Len(executed) = Len(StageOrder) - 1
    /\ environ.TEST_HOST # ""
    /\ environ.XCODE_VERSION_MINOR = "0730"
    /\ environ.PLATFORM_NAME = "iphonesimulator"

(***************************************************************************)
(* C12: the exit code of Run and the class of the failure.                 *)
(***************************************************************************)
\* The class of a failure, by the stage that reported it and what it
\* reported: the parser's code 2 is a missing terminator or a conflict, the
\* installer's 670 and 671 are _UnpackTarget's.
FailureClass(stage, code, message) ==
    CASE stage = "ParseOptions" ->
            IF message = "conflict" THEN "option conflict" ELSE "usage/parse error"
      [] stage = "RunBuild" -> "build-tool failure"
      [] stage = "VerifyOutputRoot" -> "output-root symlink failure"
      [] stage = "InstallBundle" ->
            IF code \in {670, 671} THEN "archive-extraction failure"
            ELSE "bundle-copy failure"
      [] stage = "InstallDSYM" -> "dSYM copy failure"
      [] stage = "ResignTestHost" -> "signing failure"
      [] OTHER -> "none"

Failure(stage, out, message) ==
    [class |-> FailureClass(stage, out.code, message), code |-> out.code]

\* The outcomes that make Run return their code.
Failing(outs) == {out \in outs : ~out.raised /\ out.code # 0}

\* Every failure a stage of Run can report, over the inputs the stages draw.
Failures ==
    {Failure("ParseOptions", out, out.message) :
        out \in Failing({ParseOptions(NewParser("", "", "/a/b", ""), a) :
                            a \in RunArgLists})}
    \cup {[class |-> FailureClass("RunBuild", c, ""), code |-> c] :
            c \in BazelExitCodes \ {0}}
    \cup {[class |-> FailureClass("VerifyOutputRoot", out.code, ""), code |-> out.code] :
            out \in {o \in {EnsureBazelBinSymlinkIsValid(b, m) :
                                b \in BazelBinStates, m \in BOOLEAN} :
                        o.code # 0}}
    \cup {Failure("InstallBundle", out, "") :
            out \in Failing(UNION {
                {InstallBundleArtifact(t, b, OutputPath, rm, copy) :
                    rm \in RmtreeOutcomes(t, Where(OutputPath)),
                    copy \in {"ok", "OSError", "Error"}} :
                t \in PriorTrees, b \in RunArtifacts})}
    \cup {Failure("InstallDSYM", out, "") :
            out \in Failing({InstallDSYMBundles(d) : d \in DSYMFindings})}
    \cup {Failure("ResignTestHost", out, "") :
            out \in Failing({ResignTestHost(identity, first, second) :
                                identity \in {"raise", "none", "found"},
                                first \in CodesignExitCodes,
                                second \in CodesignExitCodes})}

\* The failure this run ended with.
RunFailure ==
    [class |-> FailureClass(executed[Len(executed)].stage, retval, parse_out.message),
     code |-> retval]

\* C12: the code Run returns identifies the failure class: when Run returns
\* a non-zero code, every failure that Run can report with that code, from
\* whatever stage and on whatever input, is of the class of this run's.
C12_CodeIdentifiesFailureClass ==
    (pc = "Returned" /\ retval # 0) =>
        \A f \in Failures : f.code = retval => f.class = RunFailure.class

\* Every failure Run returns is one of Failures.
C12_RunFailuresAreEnumerated ==
    (pc = "Returned" /\ retval # 0) => RunFailure \in Failures

(***************************************************************************)
(* C13: what _EnsureBazelBinSymlinkIsValid leaves.                         *)
(***************************************************************************)
\* _EnsureBazelBinSymlinkIsValid has returned.
OutputRootVerified == Len(executed) >= 4

\* The code _EnsureBazelBinSymlinkIsValid returned.
OutputRootCode == executed[4].code

\* Run stopped at the output-root stage with code 20.
StoppedWith20 ==
    /\ OutputRootCode = 20
    /\ Len(executed) = 4
    /\ pc = "Returned"
    /\ retval = 20

\* C13 as claimed: whenever _EnsureBazelBinSymlinkIsValid returns 0,
\* bazel-bin is a symlink to an existing directory, and when it is not one
\* the stage fails with code 20 and Run stops.
C13_ZeroMeansSymlinkToDirectory ==
    OutputRootVerified =>
        /\ OutputRootCode = 0 => fs.bazel_bin = "dir"
        /\ fs.bazel_bin # "dir" => StoppedWith20

\* C13: whenever _EnsureBazelBinSymlinkIsValid returns 0, bazel-bin is either
\* no symlink at all, and nothing was created, or a symlink to an existing
\* directory, created by os.makedirs if it was missing; when bazel-bin is a
\* symlink whose target is not a directory and cannot be created, the stage
\* fails with code 20 and Run stops; no other code is returned.
C13_ZeroMeansNoSymlinkOrDirectory ==
    OutputRootVerified =>
        /\ OutputRootCode \in {0, 20}
        /\ OutputRootCode = 0 =>
            \/ fs.bazel_bin = "none" /\ fs.makedirs = "not called"
            \/ fs.bazel_bin = "dir" /\ fs.makedirs \in {"not called", "ok"}
        /\ fs.bazel_bin \in {"dangling", "file"} =>
            /\ fs.makedirs = "OSError"
            /\ StoppedWith20
        /\ OutputRootCode = 20 => fs.bazel_bin \in {"dangling", "file"}

\* C13's case: the symlink's directory was missing and has been created.
C13_Witness ==
    /\ OutputRootVerified
    /\ OutputRootCode = 0
    /\ fs.bazel_bin = "dir"
    /\ fs.makedirs = "ok"

\* C13's other cases: success without a symlink, and the failure.
C13_WitnessNoSymlink ==
    /\ OutputRootVerified
    /\ OutputRootCode = 0
    /\ fs.bazel_bin = "none"

C13_WitnessFailed == OutputRootVerified /\ StoppedWith20 /\ fs.bazel_bin = "dangling"

(***************************************************************************)
(* C14: the dSYM that _InstallDSYMBundles copies (SpecDSYM).               *)
(***************************************************************************)
\* P' as claimed: P without the prefix and its separator when there is a
\* prefix and P begins with it, P itself otherwise.
ClaimedOverridePath(bazel_dsym_path, build_path_prefix) ==
    IF build_path_prefix # "" /\ StartsWith(bazel_dsym_path, build_path_prefix)
    THEN SliceAfter(bazel_dsym_path, build_path_prefix)
    ELSE bazel_dsym_path

\* _InstallDSYMBundles was called with the dSYM named and got past the
\* removal of a stale destination.
DSYMLookedFor ==
    /\ pc \in {"Returned", "Raised"}
    /\ "DWARF_DSYM_FILE_NAME" \in DOMAIN environ
    /\ install_out.code # 700

ExpectedDSYM == Join2(BuildPath(environ), environ.DWARF_DSYM_FILE_NAME)

DestinationDSYM == Where(Join2(ProductsDir, environ.DWARF_DSYM_FILE_NAME))

\* No dSYM of the expected name is under the build path, and an override
\* path is supplied.
OverrideCase ==
    /\ DSYMLookedFor
    /\ ~IsDir(fs.tree, Where(ExpectedDSYM))
    /\ "BAZEL_BINARY_DSYM" \in DOMAIN environ

\* The destination holds what stands at source and nothing else.
CopiedFrom(source) ==
    /\ install_out.source = source
    /\ install_out.code = 0 =>
            Subtree(fs.tree, DestinationDSYM) = Subtree(fs.tree, Where(source))

\* Nothing was copied: success, and nothing is at the destination.
NothingCopied ==
    /\ install_out.source = ""
    /\ ~install_out.raised
    /\ install_out.code = 0
    /\ DestinationDSYM \notin DOMAIN fs.tree

\* With override path p taken as source: it is looked up after the expected
\* name, and copied when a directory is there.
OverrideTaken(p) ==
    LET source == Join2(BuildPath(environ), p)
    IN  /\ install_out.looked_up = <<ExpectedDSYM, source>>
        /\ IF IsDir(fs.tree, Where(source)) THEN CopiedFrom(source)
           ELSE NothingCopied

\* C14: when no dSYM of the expected name is under the build path and an
\* override path P is supplied, the source looked up and copied is
\* <build path>/P', P' being P without the build-path prefix and its
\* separator when P begins with the prefix, and P itself when the prefix is
\* empty or P does not begin with it; a stale destination dSYM is removed
\* first, and finding no dSYM at all returns success.
C14_OverrideSourceAsClaimed ==
    OverrideCase =>
        OverrideTaken(ClaimedOverridePath(environ.BAZEL_BINARY_DSYM,
                                          Getenv(environ, "BUILD_PATH", "")))

\* What the code does in C14's case: P' is P without its first
\* len(prefix) + 1 characters whenever P begins with the prefix, the empty
\* prefix included.
C14_OverrideSourceAsSliced ==
    OverrideCase =>
        OverrideTaken(OverridePath(environ.BAZEL_BINARY_DSYM,
                                   Getenv(environ, "BUILD_PATH", "")))

\* The rest of C14 in every case: past the removal of a stale destination,
\* the destination holds a copy of the source or nothing, and without any
\* dSYM to copy the call returns 0.
C14_StaleRemovedNoneIsSuccess ==
    DSYMLookedFor =>
        /\ install_out.source # "" => CopiedFrom(install_out.source)
        /\ install_out.source = "" => NothingCopied
        /\ install_out.code \in {0, 650, -1}

\* C14's case with an empty prefix and the override dSYM in place.
C14_WitnessEmptyPrefix ==
    /\ OverrideCase
    /\ "BUILD_PATH" \notin DOMAIN environ
    /\ environ.BAZEL_BINARY_DSYM = "Bin.dSYM"
    /\ IsDir(fs.tree, <<"bazel-bin", "Bin.dSYM">>)
    /\ gone_stale # {}

\* C14's case with the prefix stripped and the override dSYM copied.
C14_WitnessStripped ==
    /\ OverrideCase
    /\ environ.BAZEL_BINARY_DSYM = "a/Bin.dSYM"
    /\ Getenv(environ, "BUILD_PATH", "") = "a"
    /\ install_out.source = "bazel-bin/a/Bin.dSYM"
    /\ install_out.code = 0
    /\ gone_stale = {<<"out", "App.dSYM", "Old">>}
    /\ fs.tree[<<"out", "App.dSYM", "DWARF">>].content = "a/Bin.dSYM"

====
